---------------------------- MODULE Spec2Model ----------------------------
(***************************************************************************)
(* Model of catalog/services/lda.py: the cached API client (_client), the  *)
(* filename sanitizer (_safe_filename), the citation extractor             *)
(* (_extract_container_file_citations) and the job orchestrator            *)
(* (run_lda_from_csv).                                                     *)
(*                                                                         *)
(* Python values are modelled as follows.  A str is a sequence of          *)
(* one-character strings.  A value read out of the response payload (a     *)
(* JSON tree) is a tagged record [t, v]: t is "null", "str", "tag" (a str  *)
(* used only as a discriminator), "list" or "dict"; a dict's v is a        *)
(* function from its keys, so that a missing key and a key holding None    *)
(* are different things, as they are for dict.get.  A filesystem path is   *)
(* the sequence of its segments from the root.                             *)
(***************************************************************************)
EXTENDS Naturals, Sequences, FiniteSets, TLC

VARIABLES
    \* _safe_filename applied once and twice
    sanPc, sanIn, sanOut, sanOut2,
    \* _extract_container_file_citations applied to a response
    extPc, extSlots, extResp, extOut,
    \* process-wide state: environment, settings, the lru_cache of _client
    envKey, settingsKey, clientCache, clientLog,
    \* one call of run_lda_from_csv
    pc, client, api_key, resp, answer_text, citations, idx, saved_relpaths,
    files, netCalls, writes, result, error

sanVars == <<sanPc, sanIn, sanOut, sanOut2>>
extVars == <<extPc, extSlots, extResp, extOut>>
procVars == <<envKey, settingsKey, clientCache>>
jobVars == <<pc, client, api_key, resp, answer_text, citations, idx,
             saved_relpaths, files, netCalls, writes, result, error>>
vars == <<sanVars, extVars, procVars, clientLog, jobVars>>

---------------------------------------------------------------------------
(* Bounds of the model. *)

\* longest filename handed to _safe_filename in SpecSanitize
MaxLen == 4
\* most annotations in a response handed to the extractor in SpecExtract
MaxAnns == 3
\* most annotations in the response of a job in Spec
MaxCites == 2
\* most calls of _client in SpecClient
MaxCalls == 3

---------------------------------------------------------------------------
(* Python values. *)

Null == [t |-> "null", v |-> <<>>]
Str(s) == [t |-> "str", v |-> s]
Tag(s) == [t |-> "tag", v |-> s]
Lst(s) == [t |-> "list", v |-> s]
Dict(f) == [t |-> "dict", v |-> f]

\* a == b on two payload values
PyEq(a, b) == a.t = b.t /\ a.v = b.v

\* bool(x) of a payload value that is None, a str or a list
Truthy(x) == x.t # "null" /\ x.v # <<>>

\* d.get(k) / d.get(k, default) on a dict
Get(d, k, default) == IF k \in DOMAIN d.v THEN d.v[k] ELSE default

\* x or [] / x or ""
OrEmpty(x) == IF Truthy(x) THEN x.v ELSE <<>>

Last(s) == s[Len(s)]
Front(s) == SubSeq(s, 1, Len(s) - 1)

RECURSIVE Flatten(_)
Flatten(ss) == IF ss = <<>> THEN <<>> ELSE Head(ss) \o Flatten(Tail(ss))

RECURSIVE SeqsUpTo(_, _)
SeqsUpTo(S, n) ==
    IF n = 0 THEN {<<>>}
    ELSE LET shorter == SeqsUpTo(S, n - 1)
         IN  shorter \cup {Append(s, x) : s \in {q \in shorter : Len(q) = n - 1}, x \in S}

---------------------------------------------------------------------------
(* _safe_filename *)

Lower == {"a","b","c","d","e","f","g","h","i","j","k","l","m",
          "n","o","p","q","r","s","t","u","v","w","x","y","z"}
Upper == {"A","B","C","D","E","F","G","H","I","J","K","L","M",
          "N","O","P","Q","R","S","T","U","V","W","X","Y","Z"}
Digits == {"0","1","2","3","4","5","6","7","8","9"}
\* the class [A-Za-z0-9._-] of the regular expression
Allowed == Lower \cup Upper \cup Digits \cup {".", "_", "-"}
\* What str.strip() removes: the characters for which str.isspace() holds.  A
\* character is written as itself or as its code point, U+XXXX; the five that
\* have an escape in a string are listed in both spellings.
Whitespace ==
    {" ", "\t", "\n", "\r", "\f"} \cup
    {
     "U+0009", "U+000A", "U+000B", "U+000C", "U+000D", "U+001C",
     "U+001D", "U+001E", "U+001F", "U+0020", "U+0085", "U+00A0",
     "U+1680", "U+2000", "U+2001", "U+2002", "U+2003", "U+2004",
     "U+2005", "U+2006", "U+2007", "U+2008", "U+2009", "U+200A",
     "U+2028", "U+2029", "U+202F", "U+205F", "U+3000"
    }
\* the separator of a POSIX path
Sep == "/"
\* the literal returned for an empty result
FallbackName == <<"o","u","t","p","u","t">>

RECURSIVE LStrip(_)
LStrip(s) == IF s # <<>> /\ Head(s) \in Whitespace THEN LStrip(Tail(s)) ELSE s

RECURSIVE RStrip(_)
RStrip(s) == IF s # <<>> /\ Last(s) \in Whitespace THEN RStrip(Front(s)) ELSE s

\* str.strip()
Strip(s) == RStrip(LStrip(s))

RECURSIVE SplitSep(_, _, _)
SplitSep(s, cur, acc) ==
    IF s = <<>> THEN Append(acc, cur)
    ELSE IF Head(s) = Sep THEN SplitSep(Tail(s), <<>>, Append(acc, cur))
    ELSE SplitSep(Tail(s), Append(cur, Head(s)), acc)

\* the parts pathlib keeps of a path string: empty and "." segments are dropped
PathParts(s) ==
    SelectSeq(SplitSep(s, <<>>, <<>>), LAMBDA p : p # <<>> /\ p # <<".">>)

\* Path(s).name: the last part, "" when there is none
PathName(s) == IF PathParts(s) = <<>> THEN <<>> ELSE Last(PathParts(s))

RECURSIVE ReSubRun(_, _)
ReSubRun(s, inRun) ==
    IF s = <<>> THEN <<>>
    ELSE IF Head(s) \in Allowed THEN <<Head(s)>> \o ReSubRun(Tail(s), FALSE)
    ELSE (IF inRun THEN <<>> ELSE <<"_">>) \o ReSubRun(Tail(s), TRUE)

\* a plausible slip: the disallowed characters are removed, not replaced
ReSubDelete(s) == SelectSeq(s, LAMBDA ch : ch \in Allowed)

\* re.sub(r"[^A-Za-z0-9._-]+", "_", s): each run of other characters becomes one "_"
ReSub(s) == ReSubRun(s, FALSE)

\* _safe_filename(name), name a str or None; returns a str
SafeFilename(name) ==
    LET n1 == Strip(OrEmpty(name))
        n2 == PathName(n1)
        n3 == ReSub(n2)
    IN  Str(IF n3 = <<>> THEN FallbackName ELSE n3)

---------------------------------------------------------------------------
(* SpecSanitize: _safe_filename on every short string, then on its result. *)

\* a letter, the dot, the separator, two whitespace characters (the space and the
\* vertical tab) and a character outside the class
SanChars == {"a", ".", "/", " ", "U+000B", "$"}
SanInputs == {Null} \cup {Str(s) : s \in SeqsUpTo(SanChars, MaxLen)}

SanIdle == sanPc = "in" /\ sanOut = Null /\ sanOut2 = Null

SanInit == SanIdle /\ sanIn \in SanInputs

Sanitize ==
    /\ sanPc = "in"
    /\ sanOut' = SafeFilename(sanIn)
    /\ sanPc' = "once"
    /\ UNCHANGED <<sanIn, sanOut2>>

Resanitize ==
    /\ sanPc = "once"
    /\ sanOut2' = SafeFilename(sanOut)
    /\ sanPc' = "twice"
    /\ UNCHANGED <<sanIn, sanOut>>

---------------------------------------------------------------------------
(* Response payloads: the annotations and the shapes they come in. *)

Cid1 == <<"c","1">>
Cid2 == <<"c","2">>
Fid1 == <<"f","1">>
Fid2 == <<"f","2">>
Fid3 == <<"f","3">>
CFC == Tag("container_file_citation")

\* one annotation of each kind the remote service may send
AnnOf(kind) ==
    CASE kind = "A1" -> Dict([type |-> CFC, container_id |-> Str(Cid1), file_id |-> Str(Fid1)])
      [] kind = "A2" -> Dict([type |-> CFC, container_id |-> Str(Cid1), file_id |-> Str(Fid1),
                              filename |-> Str(<<"x">>)])
      [] kind = "A3" -> Dict([type |-> CFC, container_id |-> Str(Cid2), file_id |-> Str(Fid1),
                              filename |-> Str(<<"x">>)])
      [] kind = "A4" -> Dict([type |-> CFC, container_id |-> Str(Cid1), file_id |-> Str(Fid2),
                              filename |-> Str(<<"d","/","x">>)])
      [] kind = "A5" -> Dict([type |-> CFC, container_id |-> Str(Cid1), file_id |-> Str(Fid3),
                              filename |-> Str(<<".",".">>)])
      [] kind = "U" -> Dict([type |-> Tag("url_citation"), file_id |-> Str(Fid1)])
      [] kind = "noC" -> Dict([type |-> CFC, file_id |-> Str(Fid2), filename |-> Str(<<"x">>)])
      [] kind = "noF" -> Dict([type |-> CFC, container_id |-> Str(Cid1), filename |-> Str(<<"x">>)])
      [] kind = "nullName" -> Dict([type |-> CFC, container_id |-> Str(Cid1), file_id |-> Str(Fid2),
                                    filename |-> Null])

\* A slot places one annotation: in the current content part ("same"), in a new
\* part of the current item ("part"), in a new message item ("msg") or in a new
\* item of another type ("other").  The kinds "noContent" and "nullAnns" place no
\* annotation: a new item without content, a new item whose part has annotations None.
ExtSlots ==
    {[cut |-> c, kind |-> k] : c \in {"same", "msg"},
                               k \in {"A1", "A2", "A3", "U", "noC", "noF", "nullName"}}
    \cup {[cut |-> "part", kind |-> k] : k \in {"A2", "A3"}}
    \cup {[cut |-> "other", kind |-> k] : k \in {"A2", "noC"}}
    \cup {[cut |-> "msg", kind |-> k] : k \in {"noContent", "nullAnns"}}

StartsItem(slot) == slot.cut \in {"msg", "other"}

SlotSeqs(S, n) == {s \in SeqsUpTo(S, n) : s = <<>> \/ StartsItem(s[1])}

NewItem(slot) ==
    [type |-> IF slot.cut = "other" THEN "code_interpreter_call" ELSE "message",
     form |-> IF slot.kind = "noContent" THEN "noContent" ELSE "content",
     parts |-> IF slot.kind = "noContent" THEN <<>>
               ELSE IF slot.kind = "nullAnns" THEN <<[form |-> "null", anns |-> <<>>]>>
               ELSE <<[form |-> "list", anns |-> <<slot.kind>>]>>]

Place(items, slot) ==
    LET it == Last(items)
        newPart == [it EXCEPT !.parts = Append(it.parts, [form |-> "list", anns |-> <<slot.kind>>])]
    IN  IF StartsItem(slot) \/ items = <<>> \/ it.form = "noContent"
        THEN Append(items, NewItem(slot))
        ELSE IF slot.cut = "part" \/ Last(it.parts).form # "list"
        THEN Append(Front(items), newPart)
        ELSE Append(Front(items),
                    [it EXCEPT !.parts[Len(it.parts)].anns = Append(@, slot.kind)])

RECURSIVE PlaceAll(_, _)
PlaceAll(slots, items) ==
    IF slots = <<>> THEN items ELSE PlaceAll(Tail(slots), Place(items, Head(slots)))

PartJson(p) ==
    IF p.form = "null" THEN Dict([type |-> Tag("output_text"), annotations |-> Null])
    ELSE Dict([type |-> Tag("output_text"),
               annotations |-> Lst([i \in 1..Len(p.anns) |-> AnnOf(p.anns[i])])])

ItemJson(it) ==
    IF it.form = "noContent" THEN Dict([type |-> Tag(it.type)])
    ELSE Dict([type |-> Tag(it.type),
               content |-> Lst([i \in 1..Len(it.parts) |-> PartJson(it.parts[i])])])

\* the "output" list the slots describe
OutputJson(slots) ==
    LET items == PlaceAll(slots, <<>>)
    IN  Lst([i \in 1..Len(items) |-> ItemJson(items[i])])

---------------------------------------------------------------------------
(* _extract_container_file_citations *)

IsCitation(ann) == PyEq(Get(ann, "type", Null), CFC)

\* the annotations the three nested loops visit, in order
ScanItem(item) ==
    IF ~PyEq(Get(item, "type", Null), Tag("message")) THEN <<>>
    ELSE LET parts == OrEmpty(Get(item, "content", Lst(<<>>)))
         IN  Flatten([i \in 1..Len(parts) |->
                         OrEmpty(Get(parts[i], "annotations", Lst(<<>>)))])

Scanned(resp_dict) ==
    LET items == OrEmpty(Get(resp_dict, "output", Lst(<<>>)))
    IN  Flatten([i \in 1..Len(items) |-> ScanItem(items[i])])

\* ann["container_id"], ann["file_id"] raise KeyError on a missing key
Subscriptable(ann) == {"container_id", "file_id"} \subseteq DOMAIN ann.v

\* the dict appended to out for one citation annotation
CitationOf(ann) ==
    [container_id |-> ann.v["container_id"],
     file_id |-> ann.v["file_id"],
     filename |-> Get(ann, "filename", ann.v["file_id"])]

\* k = (x["container_id"], x["file_id"])
CiteKey(x) == <<x.container_id, x.file_id>>

RECURSIVE Uniq(_, _, _)
Uniq(out, seen, uniq) ==
    IF out = <<>> THEN uniq
    ELSE IF CiteKey(Head(out)) \in seen THEN Uniq(Tail(out), seen, uniq)
    ELSE Uniq(Tail(out), seen \cup {CiteKey(Head(out))}, Append(uniq, Head(out)))

\* the call's outcome: the list returned, or the exception raised
ExtractCitations(resp_dict) ==
    LET anns == SelectSeq(Scanned(resp_dict), IsCitation)
    IN  IF \E i \in 1..Len(anns) : ~Subscriptable(anns[i])
        THEN [ok |-> FALSE, val |-> <<>>, err |-> "KeyError"]
        ELSE [ok |-> TRUE,
              val |-> Uniq([i \in 1..Len(anns) |-> CitationOf(anns[i])], {}, <<>>),
              err |-> ""]

---------------------------------------------------------------------------
(* SpecExtract: the extractor on every response of up to MaxAnns slots. *)

ExtResponses(slots) ==
    IF slots = <<>>
    THEN {Dict([output |-> Lst(<<>>)]), Dict([output |-> Null]),
          Dict([output_text |-> Str(<<>>)])}
    ELSE {Dict([output |-> OutputJson(slots)])}

NoOutcome == [ok |-> FALSE, val |-> <<>>, err |-> ""]

ExtIdle == extPc = "in" /\ extOut = NoOutcome

ExtInit ==
    /\ ExtIdle
    /\ extSlots \in SlotSeqs(ExtSlots, MaxAnns)
    /\ extResp \in ExtResponses(extSlots)

Extract ==
    /\ extPc = "in"
    /\ extOut' = ExtractCitations(extResp)
    /\ extPc' = "done"
    /\ UNCHANGED <<extSlots, extResp>>

---------------------------------------------------------------------------
(* _client: the API client, cached by lru_cache(maxsize=1). *)

\* the values OPENAI_API_KEY takes in the environment ("" is unset or empty)
EnvKeys == {"", "k1", "k2"}
\* the values settings.OPENAI_API_KEY takes ("" is absent, None or empty)
SettingsKeys == {"", "s1"}

\* os.getenv("OPENAI_API_KEY") or getattr(settings, "OPENAI_API_KEY", None)
ResolveKey(env, settings) == IF env # "" THEN env ELSE settings

\* a plausible slip: the test for a missing key is dropped
MissingKeyNever(key) == FALSE

\* not api_key
MissingKey(key) == key = ""

\* a plausible slip: the failure of the first resolution is remembered
ClientCallStickyFailure(cache, env, settings) ==
    LET key == ResolveKey(env, settings)
    IN  IF cache # <<>> THEN [client |-> IF MissingKey(cache[1].api_key) THEN <<>> ELSE cache,
                              cache |-> cache]
        ELSE [client |-> IF MissingKey(key) THEN <<>> ELSE <<[api_key |-> key]>>,
              cache |-> <<[api_key |-> key]>>]

\* One call of _client(): client is <<c>> for a returned client c and <<>> when
\* RuntimeError is raised; cache is the lru_cache after the call, which keeps
\* returned values only.
ClientCall(cache, env, settings) ==
    LET key == ResolveKey(env, settings)
    IN  IF cache # <<>> THEN [client |-> cache, cache |-> cache]
        ELSE IF MissingKey(key) THEN [client |-> <<>>, cache |-> <<>>]
        ELSE [client |-> <<[api_key |-> key]>>, cache |-> <<[api_key |-> key]>>]

---------------------------------------------------------------------------
(* The filesystem of one job. *)

MediaRoot == << <<"m","e","d","i","a">> >>
JobDir == MediaRoot \o << <<"l","d","a","_","r","e","s","u","l","t","s">>,
                          <<"t","o","o","l","_","1">>, <<"j","o","b">> >>
CsvPath == JobDir \o << <<"i","n","p","u","t","_","t",".","c","s","v">> >>
CsvBytes == <<<<"c","s","v">>, <<>>>>

\* the directories that exist once job_dir.mkdir(parents=True) has run
Dirs == {SubSeq(JobDir, 1, n) : n \in 0..Len(JobDir)}

IsPrefix(p, q) == Len(p) <= Len(q) /\ SubSeq(q, 1, Len(p)) = p

\* q lies strictly inside directory p
StrictlyInside(q, p) == IsPrefix(p, q) /\ Len(q) > Len(p)

\* dir / name for a relative name
JoinPath(dir, name) == dir \o PathParts(name)

RECURSIVE ResolveFrom(_, _)
ResolveFrom(path, acc) ==
    IF path = <<>> THEN acc
    ELSE IF Head(path) = <<".", ".">>
    THEN ResolveFrom(Tail(path), IF acc = <<>> THEN acc ELSE Front(acc))
    ELSE ResolveFrom(Tail(path), Append(acc, Head(path)))

\* Path.resolve() of an absolute path in a tree without symbolic links
Resolve(path) == ResolveFrom(path, <<>>)

RECURSIVE JoinSegs(_)
JoinSegs(segs) ==
    IF segs = <<>> THEN <<>>
    ELSE IF Len(segs) = 1 THEN Head(segs)
    ELSE Head(segs) \o <<Sep>> \o JoinSegs(Tail(segs))

\* str(out_path.relative_to(media_root)).replace("\\", "/")
RelStr(out_path) ==
    LET rel == JoinSegs(SubSeq(out_path, Len(MediaRoot) + 1, Len(out_path)))
    IN  [i \in 1..Len(rel) |-> IF rel[i] = "\\" THEN Sep ELSE rel[i]]

\* the bytes the container holds for a cited file
Bytes(c) == <<c.container_id.v, c.file_id.v>>

ArtifactOf(c) == <<c.container_id.v, c.file_id.v>>

---------------------------------------------------------------------------
(* run_lda_from_csv *)

\* stands for the literal of line 176
FallbackText == <<"[done] the run finished but the summary text is empty">>

\* a plausible slip: the empty summary is returned as it is
FinalAnswerAsIs(text) == text

\* lines 175-176
FinalAnswer(text) == IF text = <<>> THEN FallbackText ELSE text

JobKinds == {"A1", "A2", "A3", "A4", "A5", "nullName", "noC"}
JobSlots == {[cut |-> "msg", kind |-> k] : k \in JobKinds}
JobTexts == {"missing", "empty", "blank", "text"}

JobResponse(slots, text) ==
    CASE text = "missing" -> Dict([output |-> OutputJson(slots)])
      [] text = "empty" -> Dict([output |-> OutputJson(slots), output_text |-> Str(<<>>)])
      [] text = "blank" -> Dict([output |-> OutputJson(slots), output_text |-> Str(<<" ">>)])
      [] text = "text" -> Dict([output |-> OutputJson(slots), output_text |-> Str(<<" ", "s">>)])

\* the responses a generation call can return
JobResponses == {JobResponse(s, t) : s \in SlotSeqs(JobSlots, MaxCites), t \in JobTexts}

NoError == [kind |-> "", artifact |-> <<>>]
Raised(kind) == [kind |-> kind, artifact |-> <<>>]
NoFiles == [p \in {} |-> <<>>]

JobIdle ==
    /\ pc = "idle" /\ client = <<>> /\ api_key = "" /\ resp = Null
    /\ answer_text = <<>> /\ citations = <<>> /\ idx = 0 /\ saved_relpaths = <<>>
    /\ files = NoFiles /\ netCalls = <<>> /\ writes = <<>> /\ result = <<>>
    /\ error = NoError

ProcInit ==
    /\ envKey \in EnvKeys /\ settingsKey \in SettingsKeys
    /\ clientCache = <<>> /\ clientLog = <<>>

\* the environment variable is set, changed or removed between two calls
SetEnv(k) ==
    /\ pc = "idle" /\ k # envKey
    /\ envKey' = k
    /\ UNCHANGED <<settingsKey, clientCache, clientLog, jobVars, sanVars, extVars>>

Fail(e) == pc' = "failed" /\ error' = e

\* lines 118-128: the client, the key, the job directory, the input file
StartJob(csvExists) ==
    LET r == ClientCall(clientCache, envKey, settingsKey)
        key == ResolveKey(envKey, settingsKey)
    IN  /\ pc = "idle"
        /\ clientCache' = r.cache
        /\ client' = r.client
        /\ files' = IF csvExists THEN (CsvPath :> CsvBytes) ELSE NoFiles
        /\ IF r.client = <<>> \/ MissingKey(key)
           THEN Fail(Raised("RuntimeError")) /\ api_key' = ""
           ELSE IF ~csvExists
           THEN Fail(Raised("FileNotFoundError")) /\ api_key' = key
           ELSE pc' = "started" /\ error' = NoError /\ api_key' = key
        /\ UNCHANGED <<envKey, settingsKey, clientLog, resp, answer_text, citations, idx,
                       saved_relpaths, netCalls, writes, result, sanVars, extVars>>

\* lines 131-132: client.files.create
Upload(ok) ==
    /\ pc = "started"
    /\ netCalls' = Append(netCalls, [op |-> "upload", artifact |-> <<>>])
    /\ IF ok THEN pc' = "uploaded" /\ error' = NoError
       ELSE Fail(Raised("APIError"))
    /\ UNCHANGED <<procVars, clientLog, client, api_key, resp, answer_text, citations, idx,
                   saved_relpaths, files, writes, result, sanVars, extVars>>

\* lines 139-164: client.responses.create, the summary text, the citations
Generate(ok, r) ==
    LET ex == ExtractCitations(r)
    IN  /\ pc = "uploaded"
        /\ netCalls' = Append(netCalls, [op |-> "generate", artifact |-> <<>>])
        /\ IF ~ok
           THEN Fail(Raised("APIError")) /\ UNCHANGED <<resp, answer_text, citations, idx>>
           ELSE /\ resp' = r
                /\ answer_text' = Strip(OrEmpty(Get(r, "output_text", Null)))
                /\ IF ex.ok
                   THEN pc' = "loop" /\ citations' = ex.val /\ idx' = 1 /\ error' = NoError
                   ELSE Fail(Raised(ex.err)) /\ UNCHANGED <<citations, idx>>
        /\ UNCHANGED <<procVars, clientLog, client, api_key, saved_relpaths, files, writes,
                       result, sanVars, extVars>>

\* How the download ends: the bytes are returned, or urlopen or r.read() raises and
\* nothing in lda.py catches it, whatever its class.  The classes are those of the
\* interpreter and of the modules under urlopen.
\* http.client: every exception class of the module (protocol faults of the peer)
HttpClientErrors ==
    {"HTTPException", "NotConnected", "InvalidURL", "UnknownProtocol",
     "UnknownTransferEncoding", "UnimplementedFileMode", "IncompleteRead",
     "ImproperConnectionState", "CannotSendRequest", "CannotSendHeader",
     "ResponseNotReady", "BadStatusLine", "LineTooLong", "RemoteDisconnected"}

\* urllib.error, besides HTTPError
UrllibErrors == {"URLError", "ContentTooShortError"}

\* OSError and its subclasses, those of socket and ssl included (raised unwrapped
\* while r.read() reads the body)
OsErrors ==
    {"OSError", "BlockingIOError", "ChildProcessError", "ConnectionError",
     "BrokenPipeError", "ConnectionAbortedError", "ConnectionRefusedError",
     "ConnectionResetError", "FileExistsError", "FileNotFoundError", "InterruptedError",
     "IsADirectoryError", "NotADirectoryError", "PermissionError", "ProcessLookupError",
     "TimeoutError", "herror", "gaierror", "SSLError", "SSLCertVerificationError",
     "SSLZeroReturnError", "SSLWantWriteError", "SSLWantReadError", "SSLSyscallError",
     "SSLEOFError"}

\* the other exception classes of the interpreter; "Exception" also stands for a class
\* defined elsewhere
OtherErrors ==
    {"BaseException", "BaseExceptionGroup", "ExceptionGroup", "Exception",
     "ArithmeticError", "FloatingPointError", "OverflowError", "ZeroDivisionError",
     "AssertionError", "AttributeError", "BufferError", "EOFError", "ImportError",
     "ModuleNotFoundError", "LookupError", "IndexError", "KeyError", "MemoryError",
     "NameError", "UnboundLocalError", "ReferenceError", "RuntimeError",
     "NotImplementedError", "RecursionError", "StopAsyncIteration", "StopIteration",
     "SyntaxError", "IndentationError", "TabError", "SystemError", "TypeError",
     "ValueError", "UnicodeError", "UnicodeDecodeError", "UnicodeEncodeError",
     "UnicodeTranslateError", "GeneratorExit", "KeyboardInterrupt", "SystemExit"}

\* lines 104-107 have no try statement: whatever urlopen or r.read() raises leaves
\* _download_container_file_bytes with its class unchanged
ExceptionClasses == HttpClientErrors \cup UrllibErrors \cup OsErrors \cup OtherErrors

\* an HTTPError carries the url that answered with the error status: the endpoint's
\* (it names the container and the file) or, after a redirect, another one; no other
\* class carries the request
DownloadFailures ==
    {[raises |-> "HTTPError", url |-> "endpoint"], [raises |-> "HTTPError", url |-> "redirect"]}
    \cup {[raises |-> k, url |-> "none"] : k \in ExceptionClasses}
Downloaded == [raises |-> "", url |-> "none"]
DownloadOutcomes == {Downloaded} \cup DownloadFailures

\* the exception that reaches the caller of run_lda_from_csv
DownloadError(outcome, c) ==
    [kind |-> outcome.raises,
     artifact |-> IF outcome.url = "endpoint" THEN ArtifactOf(c) ELSE <<>>]

\* lines 166-173: one turn of the loop over the citations
DownloadPersist(outcome) ==
    /\ pc = "loop" /\ idx <= Len(citations)
    /\ LET c == citations[idx]
           fname == SafeFilename(c.filename)
           out_path == Resolve(JoinPath(JobDir, fname.v))
       IN  /\ netCalls' = Append(netCalls, [op |-> "download", artifact |-> ArtifactOf(c)])
           /\ IF outcome # Downloaded
              THEN Fail(DownloadError(outcome, c))
                   /\ UNCHANGED <<writes, files, saved_relpaths, idx>>
              ELSE /\ writes' = Append(writes, [artifact |-> ArtifactOf(c), path |-> out_path,
                                                written |-> out_path \notin Dirs])
                   /\ IF out_path \in Dirs
                      THEN Fail(Raised("IsADirectoryError"))
                           /\ UNCHANGED <<files, saved_relpaths, idx>>
                      ELSE /\ files' = (out_path :> Bytes(c)) @@ files
                           /\ IF IsPrefix(MediaRoot, out_path)
                              THEN /\ saved_relpaths' = Append(saved_relpaths, RelStr(out_path))
                                   /\ idx' = idx + 1
                                   /\ UNCHANGED <<pc, error>>
                              ELSE Fail(Raised("ValueError"))
                                   /\ UNCHANGED <<saved_relpaths, idx>>
    /\ UNCHANGED <<procVars, clientLog, client, api_key, resp, answer_text, citations,
                   result, sanVars, extVars>>

\* lines 175-178: the result is returned
Finish ==
    /\ pc = "loop" /\ idx > Len(citations)
    /\ result' = <<[answer_text |-> FinalAnswer(answer_text),
                    saved_relpaths |-> saved_relpaths]>>
    /\ pc' = "done"
    /\ UNCHANGED <<procVars, clientLog, client, api_key, resp, answer_text, citations, idx,
                   saved_relpaths, files, netCalls, writes, error, sanVars, extVars>>

\* the call is over (returned or raised); the next one gets a job directory of its own
Return ==
    /\ pc \in {"done", "failed"}
    /\ pc' = "idle" /\ client' = <<>> /\ api_key' = "" /\ resp' = Null
    /\ answer_text' = <<>> /\ citations' = <<>> /\ idx' = 0 /\ saved_relpaths' = <<>>
    /\ files' = NoFiles /\ netCalls' = <<>> /\ writes' = <<>> /\ result' = <<>>
    /\ error' = NoError
    /\ UNCHANGED <<procVars, clientLog, sanVars, extVars>>

\* _client() called on its own, its outcome logged
CallClient ==
    LET r == ClientCall(clientCache, envKey, settingsKey)
    IN  /\ pc = "idle" /\ Len(clientLog) < MaxCalls
        /\ clientCache' = r.cache
        /\ clientLog' = Append(clientLog, [key |-> ResolveKey(envKey, settingsKey),
                                           out |-> r.client])
        /\ UNCHANGED <<envKey, settingsKey, jobVars, sanVars, extVars>>

---------------------------------------------------------------------------
(* The specifications. *)

\* the parts of the state a specification leaves alone
SanUnused == SanIdle /\ sanIn = Null
ExtUnused == ExtIdle /\ extSlots = <<>> /\ extResp = Dict([output |-> Lst(<<>>)])
ProcUnused == envKey = "" /\ settingsKey = "" /\ clientCache = <<>> /\ clientLog = <<>>

Init == SanUnused /\ ExtUnused /\ ProcInit /\ JobIdle

Next ==
    \/ \E k \in EnvKeys : SetEnv(k)
    \/ \E b \in BOOLEAN : StartJob(b)
    \/ \E ok \in BOOLEAN : Upload(ok)
    \/ pc = "uploaded" /\ \E ok \in BOOLEAN, r \in JobResponses : Generate(ok, r)
    \/ \E o \in DownloadOutcomes : DownloadPersist(o)
    \/ Finish
    \/ Return

\* run_lda_from_csv called again and again in one process
Spec == Init /\ [][Next]_vars

InitClient == Init

NextClient ==
    \/ \E k \in EnvKeys : SetEnv(k)
    \/ CallClient

\* _client called again and again in one process
SpecClient == InitClient /\ [][NextClient]_vars

InitSanitize == SanInit /\ ExtUnused /\ ProcUnused /\ JobIdle

NextSanitize ==
    \/ Sanitize /\ UNCHANGED <<extVars, procVars, clientLog, jobVars>>
    \/ Resanitize /\ UNCHANGED <<extVars, procVars, clientLog, jobVars>>

\* _safe_filename on every input
SpecSanitize == InitSanitize /\ [][NextSanitize]_vars

InitExtract == SanUnused /\ ExtInit /\ ProcUnused /\ JobIdle

NextExtract == Extract /\ UNCHANGED <<sanVars, procVars, clientLog, jobVars>>

\* _extract_container_file_citations on every input
SpecExtract == InitExtract /\ [][NextExtract]_vars

---------------------------------------------------------------------------
(* The claims. *)

\* C1: every path handed to write_bytes by run_lda_from_csv lies strictly inside
\* job_dir, whatever filename the response suggests; a path outside is rejected
\* before the write and never reaches write_bytes.
C1_WritePathInsideJobDir ==
    \A i \in 1..Len(writes) : StrictlyInside(writes[i].path, JobDir)

\* the call failed in a download: one was started whose bytes never reached write_bytes
DownloadFailed ==
    /\ pc = "failed"
    /\ Len(SelectSeq(netCalls, LAMBDA n : n.op = "download")) > Len(writes)

\* the job stops at the failed download: it is the last network call, the
\* citation was not persisted, and no result is returned
C2_Aborts ==
    DownloadFailed =>
        /\ result = <<>>
        /\ Last(netCalls) = [op |-> "download", artifact |-> ArtifactOf(citations[idx])]
        /\ Len(writes) = idx - 1
        /\ Len(saved_relpaths) = idx - 1

\* a job that returns a result has downloaded and persisted every citation
C2_NoneSkipped ==
    pc = "done" =>
        /\ Len(saved_relpaths) = Len(citations)
        /\ SelectSeq(netCalls, LAMBDA n : n.op = "download")
             = [i \in 1..Len(citations) |->
                   [op |-> "download", artifact |-> ArtifactOf(citations[i])]]

\* the error that reaches the caller names the artifact whose download failed
C2_Identified ==
    DownloadFailed => error.artifact = ArtifactOf(citations[idx])

\* C2: when the download of a citation fails the job aborts (no later citation is
\* downloaded or persisted, no result is returned), no artifact is skipped
\* silently, and the error that reaches the caller identifies the failed artifact.
C2_DownloadFailureAbortsAndIdentifies == C2_Aborts /\ C2_NoneSkipped /\ C2_Identified

\* C3: a call of run_lda_from_csv made while neither the environment nor the
\* settings hold a non-empty key fails with the missing-key error before any
\* network call (upload, generation, download) is made.
C3_NoKeyFailsBeforeNetwork ==
    (pc # "idle" /\ ResolveKey(envKey, settingsKey) = "") =>
        /\ pc = "failed"
        /\ error.kind = "RuntimeError"
        /\ netCalls = <<>>
        /\ result = <<>>

\* the key was removed after an earlier call had cached a client
C3_Witness ==
    /\ pc = "failed" /\ error.kind = "RuntimeError" /\ netCalls = <<>>
    /\ envKey = "" /\ settingsKey = "" /\ clientCache # <<>>

\* what the slots say about the response, read off the slots alone
\* the slot holds a container_file_citation annotation naming a container and a file
CitesFile(slot) == slot.kind \in {"A1", "A2", "A3", "A4", "A5", "nullName"}

InMessage(slots, i) ==
    LET j == CHOOSE j \in 1..i :
                 StartsItem(slots[j]) /\ \A k \in (j + 1)..i : ~StartsItem(slots[k])
    IN  slots[j].cut = "msg"

PairOfSlot(slot) == <<AnnOf(slot.kind).v.container_id, AnnOf(slot.kind).v.file_id>>

NameOfSlot(slot) ==
    LET ann == AnnOf(slot.kind).v
    IN  IF "filename" \in DOMAIN ann THEN ann.filename ELSE ann.file_id

\* the list the claim describes, read off the slots: the first occurrence of every
\* (container_id, file_id) pair cited inside a message item, in order
ExpectedCitations(slots) ==
    LET cited == {i \in 1..Len(slots) : CitesFile(slots[i]) /\ InMessage(slots, i)}
        first == {i \in cited : \A j \in cited :
                     j < i => PairOfSlot(slots[j]) # PairOfSlot(slots[i])}
        nth(n) == CHOOSE i \in first : Cardinality({j \in first : j <= i}) = n
    IN  [n \in 1..Cardinality(first) |->
            [container_id |-> PairOfSlot(slots[nth(n)])[1],
             file_id |-> PairOfSlot(slots[nth(n)])[2],
             filename |-> NameOfSlot(slots[nth(n)])]]

\* the part of C4 that holds: a call that returns, returns the list described
C4_OnReturn ==
    (extPc = "done" /\ extOut.ok) => extOut.val = ExpectedCitations(extSlots)

\* C4: for every response the extractor returns exactly one citation per distinct
\* (container_id, file_id) pair cited by a container_file_citation annotation inside
\* a message item, in order of first occurrence, with the filename of the first
\* occurrence; items of other types contribute nothing.
C4_OnePerDistinctPair ==
    extPc = "done" => (extOut.ok /\ extOut.val = ExpectedCitations(extSlots))

EmptyResponse(r) ==
    /\ r.t = "dict"
    /\ PyEq(Get(r, "output", Null), Lst(<<>>))
    /\ PyEq(Get(r, "output_text", Null), Str(<<>>))

\* C5: a generation response with an empty output list and an empty output_text
\* does not make the job fail: no download is made, and the result returned has
\* the fallback literal as its text and an empty list of saved paths.
C5_EmptyResponseGivesFallback ==
    EmptyResponse(resp) =>
        /\ pc \in {"loop", "done"}
        /\ \A i \in 1..Len(netCalls) : netCalls[i].op # "download"
        /\ writes = <<>>
        /\ pc = "loop" => ENABLED Finish
        /\ pc = "done" => result = <<[answer_text |-> FallbackText,
                                      saved_relpaths |-> <<>>]>>

C5_Witness ==
    /\ pc = "done" /\ EmptyResponse(resp)
    /\ result = <<[answer_text |-> FallbackText, saved_relpaths |-> <<>>]>>

\* C6: the name _safe_filename returns holds no path separator and is not the
\* segment "..", for every input.
C6_SanitizedNameIsSafe ==
    sanPc # "in" =>
        /\ \A i \in 1..Len(sanOut.v) : sanOut.v[i] # Sep
        /\ sanOut.v # <<".", ".">>

\* C7: _safe_filename is idempotent: applied to its own result it returns it unchanged.
C7_Idempotent == sanPc = "twice" => sanOut2 = sanOut

\* an input with leading whitespace, a separator and a character outside the class
C7_Witness ==
    /\ sanPc = "twice" /\ sanOut2 = sanOut
    /\ sanIn = Str(<<" ", "/", "$", " ">>)
    /\ sanOut = Str(<<"_">>)

\* C8: within one job two distinct citations are never written to the same path,
\* and after a successful job the saved paths hold no duplicate and the bytes of
\* every citation are on disk.
C8_CollisionSafe ==
    /\ \A i, j \in 1..Len(writes) :
           (i < j /\ writes[i].written /\ writes[j].written
                  /\ writes[i].artifact # writes[j].artifact)
               => writes[i].path # writes[j].path
    /\ pc = "done" =>
           /\ \A i, j \in 1..Len(saved_relpaths) :
                  i < j => saved_relpaths[i] # saved_relpaths[j]
           /\ \A i \in 1..Len(citations) :
                  \E p \in DOMAIN files : files[p] = Bytes(citations[i])

\* C9: the extractor raises on no response shape, and every citation it returns
\* has a name: the explicit filename, or the file identifier when there is none.
C9_ExtractionNeverRaises ==
    extPc = "done" =>
        /\ extOut.ok
        /\ \A i \in 1..Len(extOut.val) : extOut.val[i].filename.t = "str"

\* C10: over any sequence of calls of _client in one process, a call made while a
\* key is available returns a client (an earlier failure is not remembered), a
\* failed call leaves the cache empty, and once a call has returned a client
\* every later call returns that same client.
C10_CacheNeverMasksKey ==
    /\ \A i \in 1..Len(clientLog) :
           /\ clientLog[i].key # "" => clientLog[i].out # <<>>
           /\ \A j \in (i + 1)..Len(clientLog) :
                  clientLog[i].out # <<>> => clientLog[j].out = clientLog[i].out
    /\ (clientLog # <<>> /\ Last(clientLog).out = <<>>) => clientCache = <<>>

\* a failed call, then a call that succeeds, then a call under another key
C10_Witness ==
    /\ Len(clientLog) = MaxCalls
    /\ clientLog[1].out = <<>>
    /\ clientLog[2].out # <<>>
    /\ \E i \in 3..Len(clientLog) :
           clientLog[i].key # clientLog[2].key /\ clientLog[i].out = clientLog[2].out

=============================================================================
